---- MODULE Spec2Model ----
(***************************************************************************)
(* The gesture-driven display state machine of the App component           *)
(* (src/unnamed/part_001): the React state appState, currentGesture,       *)
(* photos and focusedPhotoIndex, the ref handPositionRef, and the three    *)
(* handlers handleGestureDetected, handlePhotoUpload and                   *)
(* handleRemovePhoto.                                                      *)
(*                                                                         *)
(* Each handler runs to completion on the single UI thread and React       *)
(* applies the state updates it queued before the next handler runs, so    *)
(* one handler invocation is one atomic action.  The updater passed to     *)
(* setAppState is applied once, to the current appState; the updater       *)
(* passed to setFocusedPhotoIndex from inside it is applied to the current *)
(* focusedPhotoIndex; photos.length is the length captured by useCallback, *)
(* which is re-created on every change of photos.length.                   *)
(*                                                                         *)
(* Indices into photos are 0-based as in the source; the TLA+ sequence     *)
(* photos holds photos[i] of the source at position i + 1.                 *)
(***************************************************************************)
EXTENDS Integers, Sequences, FiniteSets, TLC

\* ---------------------------------------------------------------- bounds
\* Number of files the user may upload in one run.
MaxUploads == 2
\* Largest focus index drawn as an input of the transition function.
MaxFocus == 4

\* ----------------------------------------------------------------- types
\* enum AppState
TREE == "TREE"
SCATTER == "SCATTER"
FOCUS == "FOCUS"
AppState == {TREE, SCATTER, FOCUS}

\* enum GestureType
NONE == "NONE"
FIST == "FIST"
OPEN == "OPEN"
PINCH == "PINCH"
GestureType == {NONE, FIST, OPEN, PINCH}

\* focusedPhotoIndex : number | null.  null and the number NaN are encoded
\* as negative integers, which no array index can be.
NULL == -1
NaN == -2

\* A photo is a URL string; startsWith('blob:') is all the code looks at,
\* so a URL is its scheme and an identifier.
Url(scheme, id) == [scheme |-> scheme, id |-> id]

\* Placeholder images
DEFAULT_PHOTOS ==
    << Url("https", 1), Url("https", 2), Url("https", 3), Url("https", 4) >>

\* URL.createObjectURL: a blob: URL, different on every call.
createObjectURL(n) == Url("blob", n)

\* ----------------------------------------------------------------- state
VARIABLES
    appState,           \* useState<AppState>
    currentGesture,     \* useState<GestureType>
    photos,             \* useState<string[]>
    focusedPhotoIndex,  \* useState<number | null>
    handPosition,       \* handPositionRef.current
    created,            \* number of object URLs created so far
    revoked,            \* object URLs released by URL.revokeObjectURL
    threw,              \* the last handler ended in an uncaught TypeError
    last,               \* the last handler run and the state it started from
    window,             \* which of window.Hands, window.Camera are defined
    handManager,        \* HandManager: console.error calls, hands, camera,
                        \* loading, lastGestureRef
    lastResults,        \* the results object of the last onResults call
    CONFIG,             \* CONFIG of ../constants
    layout,             \* Experience: the value of useMemo, and how many
                        \* times it has been computed
    scene,              \* the transforms of the camera, the group and the
                        \* meshes, and the number of frames so far
    sceneBefore         \* scene at the start of the last frame

vars == << appState, currentGesture, photos, focusedPhotoIndex, handPosition,
           created, revoked, threw, last, window, handManager, lastResults,
           CONFIG, layout, scene, sceneBefore >>

\* The record kept in last: which handler ran, with which gesture, and the
\* values of appState, currentGesture, handPosition, focusedPhotoIndex and
\* photos when it started.
Before(op, gesture) ==
    [ op |-> op, gesture |-> gesture, appState |-> appState,
      currentGesture |-> currentGesture, handPosition |-> handPosition,
      focusedPhotoIndex |-> focusedPhotoIndex, photos |-> photos ]

\* ------------------------------------------------------- JS number helpers
\* a + b on JS numbers: NaN is absorbing.
JsAdd(a, b) == IF a = NaN \/ b = NaN THEN NaN ELSE a + b

\* a % n on JS numbers, a >= 0: NaN when a is NaN or n is 0.
JsMod(a, n) == IF a = NaN \/ n = 0 THEN NaN ELSE a % n

\* photos[i] !== undefined
HasElement(s, i) == i \in 0 .. (Len(s) - 1)

\* prev.filter((_, i) => i !== k): the elements are visited in order and
\* those whose index is not k are appended to the result.
RECURSIVE FilterFrom(_, _, _)
FilterFrom(s, k, i) ==
    IF i >= Len(s) THEN << >>
    ELSE IF i # k THEN << s[i + 1] >> \o FilterFrom(s, k, i + 1)
    ELSE FilterFrom(s, k, i + 1)

\* A filter whose predicate compares the wrong index.
FilterNotIndex_OffByOne(s, k) == FilterFrom(s, k + 1, 0)

FilterNotIndex(s, k) == FilterFrom(s, k, 0)

\* ------------------------------------------------- HandManager.useEffect
\* The globals the MediaPipe scripts define when they have loaded.
Windows == [ Hands : BOOLEAN, Camera : BOOLEAN ]

\* The cleanup returned by the effect: camera.stop(), hands.close().
EffectCleanup(hm) == [ hm EXCEPT !.hands = FALSE, !.camera = FALSE ]

\* initializeMediaPipe: without window.Hands it logs an error and returns;
\* otherwise it creates the Hands instance and, if window.Camera exists,
\* starts the camera that feeds it.
InitializeMediaPipe(w, hm) ==
    IF ~w.Hands
    THEN [ hm EXCEPT !.errors = @ + 1 ]
    ELSE [ hm EXCEPT !.hands = TRUE, !.camera = w.Camera ]

\* The effect depends on [onGestureDetected], and handleGestureDetected is
\* memoized on [photos.length]: a render with another photos.length runs
\* the cleanup and then the effect again.
EffectRerun(oldLength, newLength) ==
    handManager' =
        IF newLength # oldLength
        THEN InitializeMediaPipe(window, EffectCleanup(handManager))
        ELSE handManager

\* The state of HandManager after it has mounted.
Mounted(w) ==
    InitializeMediaPipe(w, [ errors |-> 0, hands |-> FALSE, camera |-> FALSE,
                             loading |-> TRUE, lastGesture |-> NONE ])

\* Frames reach onResults only from a started camera feeding a Hands
\* instance.
FramesArrive == handManager.hands /\ handManager.camera

\* ------------------------------------------------- handleGestureDetected
\* The three conditions of the state machine, in the order they are tried.
\* Priority: FIST forces TREE.  Variant: FIST is honoured in SCATTER only.
FistApplies_ScatterOnly(prev, gesture) == gesture = FIST /\ prev = SCATTER

FistApplies(prev, gesture) == gesture = FIST /\ prev # TREE

\* OPEN forces SCATTER.  Variant: FOCUS is locked against OPEN.
OpenApplies_LockedInFocus(prev, gesture) == gesture = OPEN /\ prev = TREE

OpenApplies(prev, gesture) == gesture = OPEN /\ prev # SCATTER

\* PINCH triggers FOCUS if currently scattered.  Variant: PINCH is also
\* honoured in FOCUS.
PinchApplies_AlsoInFocus(prev, gesture) == gesture = PINCH /\ prev # TREE

PinchApplies(prev, gesture) == gesture = PINCH /\ prev = SCATTER

\* The updater given to setFocusedPhotoIndex on PINCH.  Variant: the index
\* is advanced without wrapping around.
NextFocusIndex_NoWrap(prevIndex, length) ==
    IF prevIndex = NULL THEN 0 ELSE JsAdd(prevIndex, 1)

NextFocusIndex(prevIndex, length) ==
    IF prevIndex = NULL THEN 0 ELSE JsMod(JsAdd(prevIndex, 1), length)

\* Variant of the updater below: OPEN leaves focusedPhotoIndex as it is.
GestureUpdater_OpenKeepsFocus(prev, prevIndex, gesture, length) ==
    IF FistApplies(prev, gesture)
    THEN [ appState |-> TREE, focusedPhotoIndex |-> prevIndex ]
    ELSE IF OpenApplies(prev, gesture)
    THEN [ appState |-> SCATTER, focusedPhotoIndex |-> prevIndex ]
    ELSE IF PinchApplies(prev, gesture)
    THEN [ appState |-> FOCUS,
           focusedPhotoIndex |-> NextFocusIndex(prevIndex, length) ]
    ELSE [ appState |-> prev, focusedPhotoIndex |-> prevIndex ]

\* The updater given to setAppState, together with the focusedPhotoIndex
\* updates it issues: the pair (appState, focusedPhotoIndex) after the
\* gesture, from the pair before it and photos.length.
GestureUpdater(prev, prevIndex, gesture, length) ==
    IF FistApplies(prev, gesture)
    THEN [ appState |-> TREE, focusedPhotoIndex |-> prevIndex ]
    ELSE IF OpenApplies(prev, gesture)
    THEN [ appState |-> SCATTER, focusedPhotoIndex |-> NULL ]
    ELSE IF PinchApplies(prev, gesture)
    THEN [ appState |-> FOCUS,
           focusedPhotoIndex |-> NextFocusIndex(prevIndex, length) ]
    ELSE [ appState |-> prev, focusedPhotoIndex |-> prevIndex ]

handleGestureDetected(gesture, handX, handY) ==
    LET next == GestureUpdater(appState, focusedPhotoIndex, gesture,
                               Len(photos))
    IN  /\ currentGesture' = gesture
        /\ handPosition' = << handX, handY >>
        /\ appState' = next.appState
        /\ focusedPhotoIndex' = next.focusedPhotoIndex
        /\ threw' = FALSE
        /\ last' = Before("gesture", gesture)
        /\ UNCHANGED << photos, created, revoked, window, CONFIG >>

\* ------------------------------------------------- HandManager.onResults
\* Landmark coordinates are MediaPipe's normalized coordinates in
\* hundredths: 0 .. 100 stands for 0.0 .. 1.0.  The hand position is in
\* hundredths too.
Point(x, y) == [ x |-> x, y |-> y ]

\* Math.hypot(dx, dy) squared.
Hypot2(dx, dy) == dx * dx + dy * dy

\* landmarks[tipIdx].y < landmarks[pipIdx].y : Y increases downwards
isFingerOpen(landmarks, tipIdx, pipIdx) ==
    landmarks[tipIdx].y < landmarks[pipIdx].y

\* pinchDistance < 0.05, as a comparison of the squares.
PinchClose(landmarks) ==
    Hypot2(landmarks[4].x - landmarks[8].x,
           landmarks[4].y - landmarks[8].y) < 5 * 5

\* Variant of detectGesture below: the pinch test comes first.
detectGesture_PinchFirst(landmarks) ==
    LET indexOpen == isFingerOpen(landmarks, 8, 6)
        middleOpen == isFingerOpen(landmarks, 12, 10)
        ringOpen == isFingerOpen(landmarks, 16, 14)
        pinkyOpen == isFingerOpen(landmarks, 20, 18)
    IN  IF PinchClose(landmarks) THEN PINCH
        ELSE IF ~indexOpen /\ ~middleOpen /\ ~ringOpen /\ ~pinkyOpen
        THEN FIST
        ELSE IF \/ (indexOpen /\ middleOpen /\ ringOpen)
                \/ (middleOpen /\ ringOpen /\ pinkyOpen)
        THEN OPEN
        ELSE NONE

detectGesture(landmarks) ==
    LET indexOpen == isFingerOpen(landmarks, 8, 6)
        middleOpen == isFingerOpen(landmarks, 12, 10)
        ringOpen == isFingerOpen(landmarks, 16, 14)
        pinkyOpen == isFingerOpen(landmarks, 20, 18)
    IN  IF ~indexOpen /\ ~middleOpen /\ ~ringOpen /\ ~pinkyOpen
        THEN FIST
        ELSE IF PinchClose(landmarks) THEN PINCH
        ELSE IF \/ (indexOpen /\ middleOpen /\ ringOpen)
                \/ (middleOpen /\ ringOpen /\ pinkyOpen)
        THEN OPEN
        ELSE NONE

\* palmX = (landmarks[0].x + landmarks[9].x) / 2 and
\* normalizedX = (0.5 - palmX) * 4.  The midpoint is kept as the sum of
\* the two coordinates (twice the midpoint), so nothing is rounded.
\* Variant: the mirroring of the webcam image is left out.
NormalizedX_NotMirrored(landmarks) ==
    (((landmarks[0].x + landmarks[9].x) - 2 * 50) * 4) \div 2

NormalizedX(landmarks) ==
    ((2 * 50 - (landmarks[0].x + landmarks[9].x)) * 4) \div 2

\* palmY = (landmarks[0].y + landmarks[9].y) / 2 and
\* normalizedY = (0.5 - palmY) * 2.
NormalizedY(landmarks) ==
    ((2 * 50 - (landmarks[0].y + landmarks[9].y)) * 2) \div 2

\* results.multiHandLandmarks && results.multiHandLandmarks.length > 0
HasHand(results) == Len(results.multiHandLandmarks) > 0

onResults(results) ==
    /\ lastResults' = << results >>
    /\ IF HasHand(results)
       THEN LET landmarks == results.multiHandLandmarks[1]
                gesture == detectGesture(landmarks)
            IN  /\ handleGestureDetected(gesture, NormalizedX(landmarks),
                                         NormalizedY(landmarks))
                /\ handManager' = [ handManager EXCEPT !.loading = FALSE,
                                                       !.lastGesture = gesture ]
       ELSE /\ handleGestureDetected(NONE, 0, 0)
            /\ handManager' = [ handManager EXCEPT !.loading = FALSE ]

\* ------------------------------------------------------------ the frames
\* A hand: the wrist (0), the middle MCP (9), the y of the four finger tips
\* (8, 12, 16, 20), and the thumb tip (4) as an offset from the index tip.
\* The PIP joints 6, 10, 14, 18 and all other landmarks are at (0.5, 0.5).
Hand(wrist, mcp, tipY, thumbOffset) ==
    [ i \in 0 .. 20 |->
        CASE i = 0 -> wrist
          [] i = 9 -> mcp
          [] i = 4 -> Point(50 + thumbOffset[1], tipY[1] + thumbOffset[2])
          [] i = 8 -> Point(50, tipY[1])
          [] i = 12 -> Point(55, tipY[2])
          [] i = 16 -> Point(60, tipY[3])
          [] i = 20 -> Point(65, tipY[4])
          [] OTHER -> Point(50, 50) ]

Palms ==
    { << Point(0, 0), Point(0, 0) >>,
      << Point(100, 100), Point(100, 100) >>,
      << Point(30, 80), Point(45, 55) >> }

TipYs == { 40, 60 }
IndexTipYs == { 40, 50, 60 }
ThumbOffsets == { << 2, 4 >>, << 3, 4 >>, << 30, 10 >> }

HandFrame(landmarks) == [ multiHandLandmarks |-> << landmarks >> ]
NoHandFrame == [ multiHandLandmarks |-> << >> ]

\* Every frame the classifier is checked on: no hand, every finger pose
\* and thumb offset with the palm in the centre, and every palm with an
\* open hand and with a closed one.
Frames ==
    { NoHandFrame }
    \cup { HandFrame(Hand(Point(50, 50), Point(50, 50), << i, m, r, k >>, t)) :
             i \in IndexTipYs, m \in TipYs, r \in TipYs, k \in TipYs,
             t \in ThumbOffsets }
    \cup { HandFrame(Hand(p[1], p[2], << y, y, y, y >>, t)) :
             p \in Palms, y \in TipYs, t \in ThumbOffsets }

\* The frames the App is run with: no hand, a fist, an open hand, a pinch
\* and an unclassified hand.
SampleFrames ==
    { NoHandFrame,
      HandFrame(Hand(Point(50, 50), Point(50, 50),
                     << 60, 60, 60, 60 >>, << 30, 10 >>)),
      HandFrame(Hand(Point(0, 0), Point(0, 0),
                     << 40, 40, 40, 40 >>, << 30, 10 >>)),
      HandFrame(Hand(Point(50, 50), Point(50, 50),
                     << 40, 40, 40, 40 >>, << 2, 4 >>)),
      HandFrame(Hand(Point(100, 100), Point(100, 100),
                     << 40, 60, 60, 60 >>, << 30, 10 >>)) }

\* ----------------------------------------------------- handlePhotoUpload
\* hasFile: e.target.files && e.target.files[0]
handlePhotoUpload(hasFile) ==
    /\ IF hasFile
       THEN /\ created < MaxUploads
            /\ photos' = Append(photos, createObjectURL(created + 1))
            /\ created' = created + 1
       ELSE UNCHANGED << photos, created >>
    /\ EffectRerun(Len(photos), Len(photos'))
    /\ threw' = FALSE
    /\ last' = Before("upload", NONE)
    /\ UNCHANGED << appState, currentGesture, focusedPhotoIndex,
                    handPosition, revoked, window, lastResults, CONFIG >>

\* ----------------------------------------------------- handleRemovePhoto
\* photos[focusedPhotoIndex].startsWith('blob:') throws a TypeError when
\* photos[focusedPhotoIndex] is undefined, before any state is set.
RemoveThrows(s, index) == index # NULL /\ ~HasElement(s, index)

handleRemovePhoto ==
    /\ IF focusedPhotoIndex # NULL
       THEN IF RemoveThrows(photos, focusedPhotoIndex)
            THEN /\ threw' = TRUE
                 /\ UNCHANGED << appState, photos, focusedPhotoIndex,
                                 revoked >>
            ELSE /\ revoked' =
                        IF photos[focusedPhotoIndex + 1].scheme = "blob"
                        THEN revoked \cup { photos[focusedPhotoIndex + 1] }
                        ELSE revoked
                 /\ photos' = FilterNotIndex(photos, focusedPhotoIndex)
                 /\ focusedPhotoIndex' = NULL
                 /\ appState' = SCATTER
                 /\ threw' = FALSE
       ELSE /\ threw' = FALSE
            /\ UNCHANGED << appState, photos, focusedPhotoIndex, revoked >>
    /\ EffectRerun(Len(photos), Len(photos'))
    /\ last' = Before("remove", NONE)
    /\ UNCHANGED << currentGesture, handPosition, created, window,
                    lastResults, CONFIG >>

\* Variant of isFocusMode below: the button only looks at the index.
isFocusMode_IndexOnly == focusedPhotoIndex # NULL

\* isFocusMode prop of InterfaceOverlay: the Remove button is rendered,
\* and can be clicked, only when it is true.
isFocusMode == appState = FOCUS /\ focusedPhotoIndex # NULL

\* ------------------------------------------------- Experience.useMemo
\* Lengths, Math.random() values, scale factors and normalized heights are
\* in thousandths.  The draws of Math.random() are taken from values on
\* which the arithmetic below is exact.
\*
\* CONFIG is imported from ../constants: PARTICLE_COUNT, TREE_HEIGHT,
\* TREE_RADIUS_BOTTOM and SCATTER_RADIUS are positive numbers.
DefaultConfig ==
    [ PARTICLE_COUNT |-> 4, TREE_HEIGHT |-> 12000,
      TREE_RADIUS_BOTTOM |-> 5000, SCATTER_RADIUS |-> 15000 ]

Configs ==
    { DefaultConfig,
      [ PARTICLE_COUNT |-> 2, TREE_HEIGHT |-> 8000,
        TREE_RADIUS_BOTTOM |-> 3000, SCATTER_RADIUS |-> 10000 ],
      [ PARTICLE_COUNT |-> 1, TREE_HEIGHT |-> 6000,
        TREE_RADIUS_BOTTOM |-> 2000, SCATTER_RADIUS |-> 5000 ] }

\* Math.pow(u, 0.9) on the heights 1 - i / count that the counts of Configs
\* produce, rounded to thousandths.
Pow09(u) ==
    CASE u = 1000 -> 1000
      [] u = 750 -> 772
      [] u = 500 -> 536
      [] u = 250 -> 287
      [] u = 0 -> 0

\* Math.cbrt(v), for the v = k^3 / 1000 with k in 0 .. 9.
Cbrt(v) == 100 * (CHOOSE k \in 0 .. 9 : k * k * k = v)

\* Math.cos and Math.sin of v * 2 * Math.PI in tenths, for v a quarter turn.
Cos2Pi(v) == CASE v = 0 -> 10 [] v = 250 -> 0 [] v = 500 -> -10 [] v = 750 -> 0
Sin2Pi(v) == CASE v = 0 -> 0 [] v = 250 -> 10 [] v = 500 -> 0 [] v = 750 -> -10

\* Math.cos and Math.sin of Math.acos(2 * v - 1) in tenths, for the v whose
\* sine is a multiple of a tenth.
CosAcos(v) == (2 * v - 1000) \div 100
SinAcos(v) == CHOOSE q \in 0 .. 10 : q * q = 100 - CosAcos(v) * CosAcos(v)

\* maxRadiusAtY for the ornament at height yTree.
MaxRadiusAtY(cfg, yTree) ==
    LET normalizedY ==
            ((yTree + cfg.TREE_HEIGHT \div 2) * 1000) \div cfg.TREE_HEIGHT
    IN  (cfg.TREE_RADIUS_BOTTOM * Pow09(1000 - normalizedY)) \div 1000 + 200

\* isSurface = Math.random() > 0.25
IsSurface(rnd) == rnd.surface > 250

\* Variant of RScale below: the surface variation is twice as wide.
RScale_WideSurface(rnd) ==
    IF IsSurface(rnd)
    THEN 900 + (rnd.rScale * 500) \div 1000
    ELSE (rnd.rScale * 800) \div 1000

\* rScale = isSurface ? 0.9 + Math.random() * 0.25 : Math.random() * 0.8
RScale(rnd) ==
    IF IsSurface(rnd)
    THEN 900 + (rnd.rScale * 250) \div 1000
    ELSE (rnd.rScale * 800) \div 1000

\* Variant of RScatter below: the radius is used as a half-width.
RScatter_Doubled(cfg, rnd) == (2 * cfg.SCATTER_RADIUS * Cbrt(rnd.rScatter)) \div 1000

\* rScatter = CONFIG.SCATTER_RADIUS * Math.cbrt(Math.random())
RScatter(cfg, rnd) == (cfg.SCATTER_RADIUS * Cbrt(rnd.rScatter)) \div 1000

\* The shape of an ornament.
ShapeOf(rnd) ==
    IF IsSurface(rnd)
    THEN IF rnd.shape > 920 THEN "diamond"
         ELSE IF rnd.shape > 840 THEN "ring"
         ELSE IF rnd.shape > 600 THEN "sphere"
         ELSE "cube"
    ELSE IF rnd.candy > 500 THEN "sphere" ELSE "candy"

\* The color of an ornament of the given shape.
ColorOf(type, rnd) ==
    IF type = "diamond" \/ type = "ring" THEN "METALLIC_GOLD"
    ELSE IF rnd.white > 950 THEN "WHITE"
    ELSE IF rnd.color > 750 THEN "METALLIC_GOLD"
    ELSE IF rnd.color > 550 THEN "CHRISTMAS_RED"
    ELSE IF rnd.color > 250 THEN "BRIGHT_GREEN"
    ELSE "MATTE_GREEN"

\* One turn of the ornament loop, for i in 0 .. count - 1.  positionTree
\* is kept as the radius rCurrent, the angle theta = i * goldenAngle (as
\* i) and the height yTree; its x and z are cos(theta) * rCurrent and
\* sin(theta) * rCurrent, so its horizontal radius is rCurrent.
\* positionScatter is kept as [x, y, z].
Ornament(cfg, i, rnd) ==
    LET t == (i * 1000) \div cfg.PARTICLE_COUNT
        yTree == (cfg.TREE_HEIGHT * (t - 500)) \div 1000
        maxRadiusAtY == MaxRadiusAtY(cfg, yTree)
        rCurrent == (maxRadiusAtY * RScale(rnd)) \div 1000
        rScatter == RScatter(cfg, rnd)
        sinPhi == SinAcos(rnd.phiScatter)
        cosPhi == CosAcos(rnd.phiScatter)
        xScatter == (rScatter * sinPhi * Cos2Pi(rnd.thetaScatter)) \div 100
        yScatter == (rScatter * sinPhi * Sin2Pi(rnd.thetaScatter)) \div 100
        zScatter == (rScatter * cosPhi) \div 10
        type == ShapeOf(rnd)
    IN  [ id |-> i,
          type |-> type,
          positionTree |-> [ r |-> rCurrent, theta |-> i, y |-> yTree ],
          positionScatter |-> << xScatter, yScatter, zScatter >>,
          color |-> ColorOf(type, rnd),
          scale |-> (rnd.scale * 200) \div 1000 + 80 ]

\* One call of the photos.forEach callback, for i in 0 .. length - 1.
\* positionTree is kept as radius, angle (thousandths of a turn) and height.
PhotoPosition(cfg, url, i, length, rnd) ==
    LET frac == (i * 1000) \div length
        yTree == ((((frac - 500) * cfg.TREE_HEIGHT) \div 1000) * 7) \div 10
        normalizedY ==
            ((yTree + cfg.TREE_HEIGHT \div 2) * 1000) \div cfg.TREE_HEIGHT
        radiusAtY ==
            ((cfg.TREE_RADIUS_BOTTOM + 1200) * (1000 - normalizedY)) \div 1000
              + 500
    IN  [ id |-> i,
          url |-> url,
          positionTree |-> [ r |-> radiusAtY, theta |-> frac * 4, y |-> yTree ],
          positionScatter |-> << (rnd.photoX - 500) * 16,
                                 (rnd.photoY - 500) * 12,
                                 (rnd.photoZ - 500) * 8 >>,
          rotation |-> << 0, rnd.photoRot \div 2, 0 >>,
          aspectRatio |-> 1000 ]

\* The function given to useMemo.  rnd holds the value Math.random()
\* returns at each of its call sites; every ornament and every photo of
\* one computation gets the same draws.
GenerateLayout(cfg, urls, rnd, computed) ==
    [ computed |-> computed,
      particles |->
          [ n \in 1 .. cfg.PARTICLE_COUNT |-> Ornament(cfg, n - 1, rnd) ],
      photoPositions |->
          [ n \in 1 .. Len(urls) |->
              PhotoPosition(cfg, urls[n], n - 1, Len(urls), rnd) ] ]

\* Draws of Math.random(), one value per call site.
Draws(surface, rScale, rScatter, thetaScatter, phiScatter) ==
    [ surface |-> surface, rScale |-> rScale, rScatter |-> rScatter,
      thetaScatter |-> thetaScatter, phiScatter |-> phiScatter,
      shape |-> 700, candy |-> 300, color |-> 600, white |-> 0,
      scale |-> 500, photoX |-> 980, photoY |-> 500, photoZ |-> 0,
      photoRot |-> 500 ]

\* The draws the generator is checked on.
LayoutStreams ==
    { Draws(a, b, c, d, e) :
        a \in { 100, 250, 900 }, b \in { 0, 980 }, c \in { 0, 125, 729 },
        d \in { 0, 250, 500 }, e \in { 200, 500, 900 } }

\* The draws the App is run with: a surface ornament and an inner one.
RenderStreams ==
    { Draws(900, 980, 729, 250, 200), Draws(100, 500, 125, 0, 500) }

\* ------------------------------------------------- the animation loop
\* The useFrame callbacks of Experience, Garland, Particle, PhotoMesh and
\* Star.  Positions and scales are in thousandths, rotations in
\* thousandths of a radian, delta in milliseconds.
Abs(x) == IF x < 0 THEN -x ELSE x

\* MaxTicks caps the number of frames, and with it the rotations.
MaxTicks == 3

\* delta of one frame: a frame of 20 ms, and a frame after 20 s without one.
Deltas == { 20, 20000 }

\* The default eps of damp, 0.001.
Eps == 1

\* damp(current, prop, target, smoothTime, delta) of maath/easing: within
\* eps of the target it stores the target and returns; otherwise it moves
\* the value toward the target by an exponential decay and never beyond
\* it.  The decay is kept as: half of the way in a short frame, all of
\* the way (to the thousandth) in a long one; smoothTime and the velocity
\* damp keeps between frames are left out.
Damp(current, target, delta) ==
    IF Abs(current - target) <= Eps THEN target
    ELSE IF delta >= 1000 THEN target
    ELSE current + (target - current) \div 2

\* damp3(current, target, smoothTime, delta): damp on x, y and z.
Damp3(current, target, delta) ==
    [ k \in 1 .. 3 |-> Damp(current[k], target[k], delta) ]

\* Math.cos(theta) and Math.sin(theta) in thousandths for theta = i *
\* goldenAngle, i in 0 .. 3.
CosGolden(i) == CASE i = 0 -> 1000 [] i = 1 -> -737 [] i = 2 -> 87 [] i = 3 -> 608
SinGolden(i) == CASE i = 0 -> 0 [] i = 1 -> 675 [] i = 2 -> -996 [] i = 3 -> 794

\* positionTree of an ornament as [xTree, yTree, zTree].
OrnamentTreeXYZ(p) ==
    << (CosGolden(p.theta) * p.r) \div 1000, p.y,
       (SinGolden(p.theta) * p.r) \div 1000 >>

\* positionTree of a photo as [xTree, yTree, zTree].
PhotoTreeXYZ(p) ==
    << (Cos2Pi(p.theta % 1000) * p.r) \div 10, p.y,
       (Sin2Pi(p.theta % 1000) * p.r) \div 10 >>

\* A mesh or group as three.js creates it: at the origin, not rotated,
\* scale 1.
NewParticleMesh == [ position |-> << 0, 0, 0 >>, rotation |-> << 0, 0, 0 >> ]
NewPhotoMesh ==
    [ position |-> << 0, 0, 0 >>, scale |-> << 1000, 1000 >>,
      rotation |-> << 0, 0, 0 >> ]

\* The scene after the first render of a Canvas whose camera is at
\* [0, 0, 18].
MountedScene(cfg, length) ==
    [ ticks |-> 0,
      group |-> [ rotationY |-> 0 ],
      camera |-> [ position |-> << 0, 0, 18000 >>, rotation |-> << 0, 0, 0 >> ],
      garland |-> [ scale |-> << 1000, 1000, 1000 >>, rotationY |-> 0 ],
      particles |-> [ n \in 1 .. cfg.PARTICLE_COUNT |-> NewParticleMesh ],
      photoMeshes |-> [ n \in 1 .. length |-> NewPhotoMesh ],
      star |-> [ position |-> << 0, 0, 0 >>, rotationY |-> 0 ] ]

\* The commit of a render: one PhotoMesh per photo, keyed photo-i, so the
\* meshes of the indices that remain are kept and a new index gets a new
\* mesh.
Commit ==
    /\ scene' =
         [ scene EXCEPT !.photoMeshes =
             [ n \in 1 .. Len(photos') |->
                 IF n <= Len(scene.photoMeshes)
                 THEN scene.photoMeshes[n] ELSE NewPhotoMesh ] ]
    /\ sceneBefore' = sceneBefore

\* Experience's useFrame: the camera and the group.
ExperienceFrame(delta) ==
    CASE appState = SCATTER ->
           [ group |-> scene.group,
             camera |->
               [ scene.camera EXCEPT !.rotation =
                   Damp3(@, << handPosition[2] * 5, handPosition[1] * 5, 0 >>,
                         delta) ] ]
      [] appState = TREE ->
           [ group |-> [ rotationY |-> scene.group.rotationY + (delta * 15) \div 100 ],
             camera |->
               [ position |-> Damp3(scene.camera.position, << 0, 0, 18000 >>, delta),
                 rotation |-> Damp3(scene.camera.rotation, << 0, 0, 0 >>, delta) ] ]
      [] appState = FOCUS ->
           [ group |-> scene.group,
             camera |->
               [ position |-> Damp3(scene.camera.position, << 0, 0, 8000 >>, delta),
                 rotation |-> Damp3(scene.camera.rotation, << 0, 0, 0 >>, delta) ] ]

\* Garland's useFrame.
GarlandFrame(mesh, delta) ==
    LET targetScale == IF appState = TREE THEN 1000 ELSE 0
    IN  [ scale |-> Damp3(mesh.scale,
                          << targetScale, targetScale, targetScale >>, delta),
          rotationY |-> IF appState = TREE
                        THEN mesh.rotationY + (delta * 5) \div 100
                        ELSE mesh.rotationY ]

\* Variant of ParticleTarget below: the draw of Math.random() that the
\* frame makes for smoothTime lands in the target instead, 0 in one frame
\* and 0.05 in the next.
ParticleTarget_Jitter(data) ==
    LET target == IF appState = TREE
                  THEN OrnamentTreeXYZ(data.positionTree)
                  ELSE data.positionScatter
    IN  << target[1] + (scene.ticks % 2) * 50, target[2], target[3] >>

\* target of Particle's useFrame.
ParticleTarget(data) ==
    IF appState = TREE
    THEN OrnamentTreeXYZ(data.positionTree)
    ELSE data.positionScatter

\* Particle's useFrame.  The draw of Math.random() goes into smoothTime,
\* which Damp leaves out.
ParticleFrame(mesh, data, delta) ==
    [ position |-> Damp3(mesh.position, ParticleTarget(data), delta),
      rotation |-> << mesh.rotation[1] + delta \div 2,
                      mesh.rotation[2] + delta \div 2,
                      mesh.rotation[3] >> ]

\* isFocused of the PhotoMesh of index i.
IsFocused(i) == focusedPhotoIndex = i

\* targetPos of PhotoMesh's useFrame.
PhotoTargetPos(data, i) ==
    IF appState = FOCUS
    THEN IF IsFocused(i)
         THEN << 0, 0, 5000 >>
         ELSE << (data.positionScatter[1] * 3) \div 2,
                 (data.positionScatter[2] * 3) \div 2,
                 data.positionScatter[3] - 10000 >>
    ELSE IF appState = TREE
         THEN PhotoTreeXYZ(data.positionTree)
         ELSE data.positionScatter

\* targetScale of PhotoMesh's useFrame.
PhotoTargetScale(i) == IF appState = FOCUS /\ IsFocused(i) THEN 3500 ELSE 1000

\* Object3D.lookAt of three.js, from position toward target: kept as the
\* turn about y, to the quarter turn; the tilt is left out.
LookAt(position, target) ==
    LET dx == target[1] - position[1]
        dz == target[3] - position[3]
    IN  << 0,
           IF Abs(dz) >= Abs(dx)
           THEN (IF dz >= 0 THEN 0 ELSE 3142)
           ELSE (IF dx > 0 THEN 1571 ELSE -1571),
           0 >>

\* PhotoMesh's useFrame, for the mesh of index i.
PhotoFrame(mesh, data, i, delta) ==
    LET facing ==
            IF appState = SCATTER
            THEN LookAt(mesh.position, scene.camera.position)
            ELSE LookAt(mesh.position, << 0, mesh.position[2], 0 >>)
        rotation ==
            CASE appState = FOCUS -> mesh.rotation
              [] appState = SCATTER -> facing
              [] appState = TREE -> << facing[1], facing[2] + 3142, facing[3] >>
    IN  [ position |-> Damp3(mesh.position, PhotoTargetPos(data, i), delta),
          scale |-> << Damp(mesh.scale[1], PhotoTargetScale(i), delta),
                       Damp(mesh.scale[2], PhotoTargetScale(i), delta) >>,
          rotation |-> IF appState = FOCUS /\ IsFocused(i)
                       THEN Damp3(rotation, << 0, 0, 0 >>, delta)
                       ELSE rotation ]

\* targetY of Star's useFrame.
StarTargetY == IF appState = TREE THEN CONFIG.TREE_HEIGHT \div 2 + 1000 ELSE 10000

\* Star's useFrame.
StarFrame(mesh, delta) ==
    [ position |-> Damp3(mesh.position, << 0, StarTargetY, 0 >>, delta),
      rotationY |-> mesh.rotationY + delta ]

\* One frame of the render loop: every useFrame callback runs once with
\* the same delta.  It writes the scene and nothing else.
Frame(delta) ==
    /\ scene.ticks < MaxTicks
    /\ last' = Before("tick", NONE)
    /\ sceneBefore' = scene
    /\ scene' =
         [ ticks |-> scene.ticks + 1,
           group |-> ExperienceFrame(delta).group,
           camera |-> ExperienceFrame(delta).camera,
           garland |-> GarlandFrame(scene.garland, delta),
           particles |->
             [ n \in 1 .. Len(scene.particles) |->
                 ParticleFrame(scene.particles[n], layout.particles[n], delta) ],
           photoMeshes |->
             [ n \in 1 .. Len(scene.photoMeshes) |->
                 PhotoFrame(scene.photoMeshes[n], layout.photoPositions[n],
                            n - 1, delta) ],
           star |-> StarFrame(scene.star, delta) ]
    /\ UNCHANGED << appState, currentGesture, photos, focusedPhotoIndex,
                    handPosition, created, revoked, threw, window,
                    handManager, lastResults, CONFIG, layout >>

Tick == \E delta \in Deltas : Frame(delta)

\* Variant of Render below: the memo also depends on appState.
Render_DependsOnAppState(streams) ==
    /\ Commit
    /\ IF photos' # photos \/ appState' # appState
       THEN \E rnd \in streams :
               layout' = GenerateLayout(CONFIG, photos', rnd, layout.computed + 1)
       ELSE layout' = layout

\* The render that follows a handler: useMemo(..., [photos]) computes the
\* layout again when photos is another array, and returns the stored one
\* otherwise.  (Every setPhotos of the App changes the length of photos.)
Render(streams) ==
    /\ Commit
    /\ IF photos' # photos
       THEN \E rnd \in streams :
               layout' = GenerateLayout(CONFIG, photos', rnd, layout.computed + 1)
       ELSE layout' = layout

\* ----------------------------------------------------------- the program
Gesture ==
    /\ FramesArrive
    /\ \E results \in SampleFrames : onResults(results)
    /\ Render(RenderStreams)

Upload ==
    /\ \E hasFile \in BOOLEAN : handlePhotoUpload(hasFile)
    /\ Render(RenderStreams)

RemoveClick == isFocusMode /\ handleRemovePhoto /\ Render(RenderStreams)

\* The state after the first render: everything but the layout's draws.
Mount ==
    /\ appState = TREE
    /\ currentGesture = NONE
    /\ photos = DEFAULT_PHOTOS
    /\ focusedPhotoIndex = NULL
    /\ handPosition = << 0, 0 >>
    /\ created = 0
    /\ revoked = {}
    /\ threw = FALSE
    /\ last = Before("init", NONE)
    /\ window \in Windows
    /\ handManager = Mounted(window)
    /\ lastResults = << >>

\* The scene of the first render.
MountScene ==
    /\ scene = MountedScene(CONFIG, Len(photos))
    /\ sceneBefore = scene

Init ==
    /\ Mount
    /\ CONFIG = DefaultConfig
    /\ \E rnd \in RenderStreams :
           layout = GenerateLayout(CONFIG, photos, rnd, 1)
    /\ MountScene

Next == Gesture \/ Upload \/ RemoveClick

Spec == Init /\ [][Next]_vars

\* ------------------------------------- the handlers as functions of state
\* The handlers applied to every DisplayState, FocusIndex and photo count:
\* the state they start from is drawn from bounded sets, and
\* handleRemovePhoto is called whatever the state is.
PhotoLists == { SubSeq(DEFAULT_PHOTOS, 1, n) : n \in 0 .. Len(DEFAULT_PHOTOS) }

InitFn ==
    /\ appState \in AppState
    /\ currentGesture = NONE
    /\ photos \in PhotoLists
    /\ focusedPhotoIndex \in { NULL } \cup (0 .. MaxFocus)
    /\ handPosition = << 0, 0 >>
    /\ created = 0
    /\ revoked = {}
    /\ threw = FALSE
    /\ last = Before("init", NONE)
    /\ window = [ Hands |-> TRUE, Camera |-> TRUE ]
    /\ handManager = Mounted(window)
    /\ lastResults = << >>
    /\ CONFIG = DefaultConfig
    /\ layout = GenerateLayout(CONFIG, photos, Draws(900, 980, 729, 250, 200), 1)
    /\ MountScene

RemoveCall == handleRemovePhoto /\ Render(RenderStreams)

NextFn == Gesture \/ Upload \/ RemoveCall

SpecFn == InitFn /\ [][NextFn]_vars

\* ------------------------------------- the classifier on all its frames
\* HandManager alone, fed every frame of Frames.
InitHand ==
    /\ Mount
    /\ window = [ Hands |-> TRUE, Camera |-> TRUE ]
    /\ CONFIG = DefaultConfig
    /\ layout = GenerateLayout(CONFIG, photos, Draws(900, 980, 729, 250, 200), 1)
    /\ MountScene

AnyFrame ==
    /\ FramesArrive
    /\ \E results \in Frames : onResults(results)
    /\ Render(RenderStreams)

NextHand == AnyFrame

SpecHand == InitHand /\ [][NextHand]_vars

\* -------------------------------------- the generator on all its draws
\* Experience.useMemo alone: computed on mount and after every upload,
\* with every draw of LayoutStreams.
InitLayout ==
    /\ Mount
    /\ window = [ Hands |-> TRUE, Camera |-> TRUE ]
    /\ CONFIG \in Configs
    /\ \E rnd \in LayoutStreams :
           layout = GenerateLayout(CONFIG, photos, rnd, 1)
    /\ MountScene

UploadAnyDraws ==
    /\ \E hasFile \in BOOLEAN : handlePhotoUpload(hasFile)
    /\ Render(LayoutStreams)

NextLayout == UploadAnyDraws

SpecLayout == InitLayout /\ [][NextLayout]_vars

\* ------------------------------------------- the scene under the frames
\* The render loop next to the gestures: frames of every delta of Deltas
\* between the gestures of SampleFrames.
InitAnim ==
    /\ Mount
    /\ window = [ Hands |-> TRUE, Camera |-> TRUE ]
    /\ CONFIG = DefaultConfig
    /\ layout = GenerateLayout(CONFIG, photos, Draws(900, 980, 729, 250, 200), 1)
    /\ MountScene

NextAnim == Tick \/ Gesture

SpecAnim == InitAnim /\ [][NextAnim]_vars

\* ------------------------------------------------------------ the claims
\* What the formulas below read from last.
ranGesture(g) == last.op = "gesture" /\ last.gesture = g
ranRemove == last.op = "remove"
unchangedDisplay ==
    /\ appState = last.appState
    /\ focusedPhotoIndex = last.focusedPhotoIndex
IsIndexOrNull(x) == x = NULL \/ x \in Nat

\* C1: in every reachable state, FocusIndex is non-null only if
\* DisplayState = FOCUS.
C1_FocusOnlyInFocus == focusedPhotoIndex # NULL => appState = FOCUS

\* C2: in every reachable state, FocusIndex is null or an integer i with
\* 0 <= i < the current number of photos.
C2_FocusIndexValid ==
    focusedPhotoIndex = NULL \/ HasElement(photos, focusedPhotoIndex)

\* C3: with an empty photo collection a PINCH gesture changes neither
\* DisplayState nor FocusIndex, in every DisplayState.
C3_PinchEmptyNoop ==
    (ranGesture(PINCH) /\ Len(last.photos) = 0) => unchangedDisplay

\* C4: photo removal invoked while FocusIndex references no existing photo
\* raises no error and changes neither the photo collection, nor
\* DisplayState, nor FocusIndex.
C4_RemoveMissingNoop ==
    (ranRemove /\ ~HasElement(last.photos, last.focusedPhotoIndex))
        => /\ ~threw
           /\ photos = last.photos
           /\ unchangedDisplay

\* C5: a FIST gesture results in DisplayState = TREE, whatever DisplayState,
\* FocusIndex and photo count it is processed in.
C5_FistYieldsTree == ranGesture(FIST) => appState = TREE

C5_Witness ==
    /\ ranGesture(FIST)
    /\ last.appState = FOCUS
    /\ last.focusedPhotoIndex # NULL
    /\ appState = TREE

\* C6: removal with FocusIndex = k referencing an existing photo deletes
\* exactly the element at index k, keeps the order of the others, sets
\* FocusIndex to null and DisplayState to SCATTER, all in one operation.
C6_RemoveFocused ==
    (ranRemove /\ HasElement(last.photos, last.focusedPhotoIndex))
        => LET k == last.focusedPhotoIndex
               old == last.photos
           IN  /\ Len(photos) = Len(old) - 1
               /\ \A i \in 0 .. (Len(photos) - 1) :
                      photos[i + 1] = IF i < k THEN old[i + 1] ELSE old[i + 2]
               /\ focusedPhotoIndex = NULL
               /\ appState = SCATTER
               /\ ~threw

C6_Witness ==
    /\ ranRemove
    /\ last.focusedPhotoIndex >= 1
    /\ last.focusedPhotoIndex < Len(last.photos) - 1
    /\ Len(photos) = Len(last.photos) - 1
    /\ appState = SCATTER

\* C7: a PINCH gesture in SCATTER with n >= 1 photos yields FOCUS, a null
\* FocusIndex becomes 0 and a non-null FocusIndex p becomes (p + 1) mod n.
C7_PinchAdvances ==
    (/\ ranGesture(PINCH)
     /\ last.appState = SCATTER
     /\ Len(last.photos) >= 1
     /\ IsIndexOrNull(last.focusedPhotoIndex))
        => /\ appState = FOCUS
           /\ focusedPhotoIndex =
                  IF last.focusedPhotoIndex = NULL THEN 0
                  ELSE (last.focusedPhotoIndex + 1) % Len(last.photos)

C7_Witness ==
    /\ ranGesture(PINCH)
    /\ last.appState = SCATTER
    /\ Len(last.photos) >= 2
    /\ last.focusedPhotoIndex = Len(last.photos) - 1
    /\ appState = FOCUS
    /\ focusedPhotoIndex = 0

\* C8: an OPEN gesture in TREE or FOCUS yields SCATTER with FocusIndex null;
\* in SCATTER it leaves DisplayState and FocusIndex as they are.
C8_OpenScatters ==
    ranGesture(OPEN)
        => IF last.appState = SCATTER
           THEN unchangedDisplay
           ELSE appState = SCATTER /\ focusedPhotoIndex = NULL

C8_Witness ==
    /\ ranGesture(OPEN)
    /\ last.appState = FOCUS
    /\ last.focusedPhotoIndex # NULL
    /\ appState = SCATTER
    /\ focusedPhotoIndex = NULL

\* C9: a PINCH gesture in TREE or FOCUS leaves DisplayState and FocusIndex
\* unchanged, so repeated PINCH gestures do not advance FocusIndex, and
\* FOCUS is entered only from SCATTER.
C9_PinchOnlyFromScatter ==
    /\ (ranGesture(PINCH) /\ last.appState \in { TREE, FOCUS })
           => unchangedDisplay
    /\ (last.op # "init" /\ appState = FOCUS /\ last.appState # FOCUS)
           => last.appState = SCATTER

C9_Witness ==
    /\ ranGesture(PINCH)
    /\ last.currentGesture = PINCH
    /\ last.appState = FOCUS
    /\ HasElement(last.photos, last.focusedPhotoIndex)
    /\ Len(last.photos) >= 2
    /\ focusedPhotoIndex = last.focusedPhotoIndex

C19_FocusHasIndex ==
    /\ appState = FOCUS => focusedPhotoIndex # NULL
    /\ isFocusMode <=> appState = FOCUS
    /\ (last.op # "init" /\ Len(photos) < Len(last.photos))
           => last.appState = FOCUS

C19_Witness ==
    /\ ranRemove
    /\ last.appState = FOCUS
    /\ last.focusedPhotoIndex # NULL
    /\ Len(photos) = Len(last.photos) - 1

\* C12: when window.Hands is undefined for the whole run, the condition is
\* reported exactly once whatever the user does, and DisplayState stays
\* TREE and FocusIndex stays null.
C12_MissingHandsReportedOnce ==
    ~window.Hands
        => /\ handManager.errors = 1
           /\ appState = TREE
           /\ focusedPhotoIndex = NULL

\* What the formulas on frames read: the landmarks of the last frame.
ranFrame == last.op = "gesture" /\ Len(lastResults) = 1
sawHand == ranFrame /\ Len(lastResults[1].multiHandLandmarks) > 0
seen == lastResults[1].multiHandLandmarks[1]
open(tip, pip) == seen[tip].y < seen[pip].y
noneOpen == ~open(8, 6) /\ ~open(12, 10) /\ ~open(16, 14) /\ ~open(20, 18)
near ==
    (seen[4].x - seen[8].x) * (seen[4].x - seen[8].x)
      + (seen[4].y - seen[8].y) * (seen[4].y - seen[8].y) < 25
threeOpen ==
    \/ (open(8, 6) /\ open(12, 10) /\ open(16, 14))
    \/ (open(12, 10) /\ open(16, 14) /\ open(20, 18))

ornaments == { layout.particles[n] : n \in 1 .. Len(layout.particles) }
maxRadius(p) == MaxRadiusAtY(CONFIG, p.positionTree.y)
norm2(v) == v[1] * v[1] + v[2] * v[2] + v[3] * v[3]

C14_ScatterWithinRadius ==
    \A p \in ornaments :
        norm2(p.positionScatter)
            <= (CONFIG.SCATTER_RADIUS + 1) * (CONFIG.SCATTER_RADIUS + 1)

C14_Witness ==
    \E p \in ornaments :
        /\ p.positionScatter[2] # 0
        /\ p.positionScatter[3] # 0
        /\ norm2(p.positionScatter)
               = ((9 * CONFIG.SCATTER_RADIUS) \div 10) * ((9 * CONFIG.SCATTER_RADIUS) \div 10)
        /\ layout.computed >= 2

\* C15: the stored layout is computed again exactly in the steps that add
\* or remove a photo; a gesture, whatever it does to DisplayState and
\* FocusIndex, leaves it as it is; and the number of ornaments is
\* PARTICLE_COUNT whatever the number of photos.
C15_LayoutStable ==
    [][ /\ photos' = photos => layout' = layout
        /\ photos' # photos => layout'.computed = layout.computed + 1
        /\ last'.op = "gesture" => layout' = layout
        /\ Len(layout'.particles) = CONFIG.PARTICLE_COUNT
        /\ Len(layout'.photoPositions) = Len(photos') ]_vars

C15_Witness ==
    /\ ranGesture(OPEN)
    /\ last.appState = FOCUS
    /\ appState = SCATTER
    /\ layout.computed >= 2
    /\ Len(photos) # Len(DEFAULT_PHOTOS)
    /\ Len(layout.particles) = CONFIG.PARTICLE_COUNT

\* What the formulas on the frames read: the frame that ran last, the
\* meshes before and after it, and the targets that DisplayState and
\* FocusIndex imply.
ranTick == last.op = "tick"
ornamentIds == 1 .. Len(scene.particles)
photoIds == 1 .. Len(scene.photoMeshes)
ornamentTarget(n) ==
    IF appState = TREE
    THEN OrnamentTreeXYZ(layout.particles[n].positionTree)
    ELSE layout.particles[n].positionScatter
focused(n) == appState = FOCUS /\ focusedPhotoIndex = n - 1
photoTarget(n) ==
    LET data == layout.photoPositions[n]
    IN  CASE appState = TREE -> PhotoTreeXYZ(data.positionTree)
          [] appState = SCATTER -> data.positionScatter
          [] focused(n) -> << 0, 0, 5000 >>
          [] OTHER -> << (data.positionScatter[1] * 3) \div 2,
                         (data.positionScatter[2] * 3) \div 2,
                         data.positionScatter[3] - 10000 >>
photoScale(n) == IF focused(n) THEN << 3500, 3500 >> ELSE << 1000, 1000 >>
starTarget ==
    << 0, IF appState = TREE THEN CONFIG.TREE_HEIGHT \div 2 + 1000 ELSE 10000, 0 >>
photoAtTarget(n) ==
    /\ sceneBefore.photoMeshes[n].position = photoTarget(n)
    /\ sceneBefore.photoMeshes[n].scale = photoScale(n)
    /\ focused(n) => sceneBefore.photoMeshes[n].rotation = << 0, 0, 0 >>

\* C17 as claimed: a frame leaves the whole transform (position, scale,
\* rotation) of every ornament, photo and star unchanged once the entity
\* is at the target that DisplayState and FocusIndex imply.  (The
\* rotation of a photo is compared in FOCUS, where lookAt does not set it.)
C17_TransformIdempotentAtTarget ==
    ranTick =>
        /\ \A n \in ornamentIds :
               sceneBefore.particles[n].position = ornamentTarget(n)
                   => scene.particles[n] = sceneBefore.particles[n]
        /\ \A n \in photoIds :
               photoAtTarget(n)
                   => /\ scene.photoMeshes[n].position = photoTarget(n)
                      /\ scene.photoMeshes[n].scale = photoScale(n)
                      /\ appState = FOCUS
                           => scene.photoMeshes[n].rotation
                                  = sceneBefore.photoMeshes[n].rotation
        /\ sceneBefore.star.position = starTarget
               => scene.star = sceneBefore.star

\* C17 as amended: a frame leaves unchanged the position of every
\* ornament, photo and star that is at its target position, the scale of
\* every photo that is at its target scale, and the rotation of the
\* focused photo once it is [0, 0, 0].
C17_DampingIdempotentAtTarget ==
    ranTick =>
        /\ \A n \in ornamentIds :
               sceneBefore.particles[n].position = ornamentTarget(n)
                   => scene.particles[n].position = ornamentTarget(n)
        /\ \A n \in photoIds :
               /\ sceneBefore.photoMeshes[n].position = photoTarget(n)
                      => scene.photoMeshes[n].position = photoTarget(n)
               /\ sceneBefore.photoMeshes[n].scale = photoScale(n)
                      => scene.photoMeshes[n].scale = photoScale(n)
               /\ (focused(n) /\ sceneBefore.photoMeshes[n].rotation = << 0, 0, 0 >>)
                      => scene.photoMeshes[n].rotation = << 0, 0, 0 >>
        /\ sceneBefore.star.position = starTarget
               => scene.star.position = starTarget

C17_Witness ==
    /\ ranTick
    /\ appState = FOCUS
    /\ focusedPhotoIndex = 0
    /\ photoAtTarget(1)
    /\ scene.photoMeshes[1] = sceneBefore.photoMeshes[1]
    /\ \A n \in ornamentIds :
           /\ sceneBefore.particles[n].position = ornamentTarget(n)
           /\ scene.particles[n].position = ornamentTarget(n)
           /\ ornamentTarget(n) # << 0, 0, 0 >>
    /\ sceneBefore.star.position = starTarget
    /\ scene.star.position = starTarget
    /\ scene.star.rotationY # sceneBefore.star.rotationY

====
